---- MODULE Spec2Model ----
(***************************************************************************)
(* Model of the video ingestion pipeline: the upload handler               *)
(* (handlerUploadVideo), the Location resolver (dbVideoToSignedVideo) and  *)
(* the aspect classifier (getVideoAspectRatio).                            *)
(***************************************************************************)
EXTENDS Integers, Sequences, FiniteSets, TLC

(***************************************************************************)
(* Bounds of the model.                                                    *)
(***************************************************************************)
\* longest stream list the probe tool reports
MaxStreams == 2
\* longest raw Location body (characters after an optional "https://")
MaxLocLen == 4
\* longest bucket body / key handed to the compact encoder
MaxPartLen == 2

VARIABLES
    \* aspect classifier
    streams,    \* the probe tool's parsed stream list
    aspect,     \* getVideoAspectRatio's result, err = Pending before the call
    \* Location resolver
    lphase,     \* "encode": bucket and key not yet encoded; "written": the
                \* Location was written by the encoder; "legacy": it was found
    lbucket,    \* bucket handed to the compact encoder
    lkey,       \* key handed to the compact encoder
    loc,        \* the persisted Location (VideoURL): Nil or Ptr(string)
    res,        \* dbVideoToSignedVideo's result, err = Pending before the call
    \* upload handlers
    db,         \* metadata store: video id -> record, NoRecord when absent
    objects,    \* keys of the objects the object store holds
    files,      \* local files that exist
    req         \* one record per video upload request slot

vars == <<streams, aspect, lphase, lbucket, lkey, loc, res, db, objects, files, req>>
aspectVars == <<streams, aspect>>
locVars == <<lphase, lbucket, lkey, loc, res>>
handlerVars == <<db, objects, files, req>>

NoErr == "noerr"
Pending == "pending"

\* a *string: Nil, or Ptr(s) pointing at the string s
Nil == <<>>
Ptr(s) == <<s>>
Deref(p) == p[1]

(***************************************************************************)
(* float64 arithmetic (IEEE 754 binary64, round to nearest, ties to even). *)
(* A non-negative float is [m |-> bits, e |-> exp]: m is the significand,  *)
(* MantBits bits, most significant first, m[1] = 1; its value is           *)
(* int(m) * 2^e.  Zero is [m |-> <<>>, e |-> 0].                           *)
(***************************************************************************)
MantBits == 53

FZero == [m |-> <<>>, e |-> 0]

Zeros(n) == [i \in 1..n |-> 0]

\* the low `width` binary digits of a natural number, most significant first
PadBits(n, width) == [i \in 1..width |-> (n \div 2^(width - i)) % 2]

AnyOne(b) == \E i \in 1..Len(b) : b[i] = 1

FirstOne(b) == CHOOSE i \in 1..Len(b) : b[i] = 1 /\ \A j \in 1..(i - 1) : b[j] = 0

StripZeros(b) == IF AnyOne(b) THEN SubSeq(b, FirstOne(b), Len(b)) ELSE <<>>

\* binary digits of a natural number below 2^31, without leading zeros
NatBits(n) == StripZeros(PadBits(n, 31))

\* b + 1 on a bit sequence; the result has one more bit when b is all ones
IncBits(b) ==
    IF \A i \in 1..Len(b) : b[i] = 1
    THEN <<1>> \o Zeros(Len(b))
    ELSE LET z == CHOOSE i \in 1..Len(b) :
                      b[i] = 0 /\ \A j \in (i + 1)..Len(b) : b[j] = 1
         IN  [i \in 1..Len(b) |-> IF i < z THEN b[i] ELSE IF i = z THEN 1 ELSE 0]

\* a[from..] < b[from..] as binary numbers, for bit sequences of equal length
LessFrom(a, b, from) ==
    \E j \in from..Len(a) :
        a[j] < b[j] /\ \A k \in from..(j - 1) : a[k] = b[k]

\* a < b for bit sequences of equal length
LessBits(a, b) == LessFrom(a, b, 1)

\* a - b for bit sequences of equal length with a >= b: position i borrows
\* exactly when the lower positions of a hold less than those of b
SubBits(a, b) ==
    [i \in 1..Len(a) |->
        (a[i] - b[i] - (IF LessFrom(a, b, i + 1) THEN 1 ELSE 0) + 2) % 2]

\* round the exact value int(sig) * 2^e (+ a non-zero tail when sticky) to
\* MantBits significant bits, nearest, ties to even; sig[1] = 1
RoundBits(sig, e, sticky) ==
    IF Len(sig) <= MantBits
    THEN [m |-> sig \o Zeros(MantBits - Len(sig)), e |-> e - (MantBits - Len(sig))]
    ELSE LET keep  == SubSeq(sig, 1, MantBits)
             rest  == SubSeq(sig, MantBits + 1, Len(sig))
             st    == sticky \/ AnyOne(Tail(rest))
             up    == rest[1] = 1 /\ (st \/ keep[MantBits] = 1)
             inc   == IncBits(keep)
             e2    == e + (Len(sig) - MantBits)
         IN  IF ~up THEN [m |-> keep, e |-> e2]
             ELSE IF Len(inc) = MantBits THEN [m |-> inc, e |-> e2]
             ELSE [m |-> SubSeq(inc, 1, MantBits), e |-> e2 + 1]

\* long division, ChunkBits quotient bits at a time: extends the quotient
\* bits sig (fracs of them fractional) until more than MantBits significant
\* bits are known; rem is the remainder so far (needs d < 2^18)
ChunkBits == 13

RECURSIVE DivSteps(_, _, _, _)
DivSteps(sig, fracs, rem, d) ==
    IF Len(sig) > MantBits
    THEN [sig |-> sig, fracs |-> fracs, rem |-> rem]
    ELSE DivSteps(StripZeros(sig \o PadBits((rem * 2^ChunkBits) \div d, ChunkBits)),
                  fracs + ChunkBits, (rem * 2^ChunkBits) % d, d)

\* the float64 nearest to n / d, for naturals n and 0 < d < 2^18
FRatio(n, d) ==
    IF n = 0 THEN FZero
    ELSE LET q == DivSteps(NatBits(n \div d), 0, n % d, d)
         IN  RoundBits(q.sig, 0 - q.fracs, q.rem # 0)

\* math.Abs(a - b) for non-negative floats a, b
FAbsDiff(a, b) ==
    IF a.m = <<>> THEN b
    ELSE IF b.m = <<>> THEN a
    ELSE LET lo == IF a.e < b.e THEN a.e ELSE b.e
             A0 == a.m \o Zeros(a.e - lo)
             B0 == b.m \o Zeros(b.e - lo)
             n  == IF Len(A0) > Len(B0) THEN Len(A0) ELSE Len(B0)
             A  == Zeros(n - Len(A0)) \o A0
             B  == Zeros(n - Len(B0)) \o B0
             D  == StripZeros(IF LessBits(A, B) THEN SubBits(B, A) ELSE SubBits(A, B))
         IN  IF D = <<>> THEN FZero ELSE RoundBits(D, lo, FALSE)

\* a < b for non-negative floats
FLess(a, b) ==
    IF b.m = <<>> THEN FALSE
    ELSE IF a.m = <<>> THEN TRUE
    ELSE IF a.e # b.e THEN a.e < b.e
    ELSE LessBits(a.m, b.m)


(***************************************************************************)
(* Aspect classifier: getVideoAspectRatio, from the parsed probe output.   *)
(***************************************************************************)
\* the stream entries the probe tool is taken to report
StreamVals ==
    { [w |-> 0, h |-> 0], [w |-> 0, h |-> 1080], [w |-> 1920, h |-> 0],
      [w |-> 1920, h |-> 1080], [w |-> 1080, h |-> 1920], [w |-> 16, h |-> 9],
      [w |-> 151, h |-> 90], [w |-> 302, h |-> 180], [w |-> 150, h |-> 90],
      [w |-> 169, h |-> 90], [w |-> 37, h |-> 80], [w |-> 53, h |-> 80],
      [w |-> 1510, h |-> 900], [w |-> 640, h |-> 480], [w |-> 1, h |-> 1] }

\* faulty variant of ScanStreams: the loop without its break keeps the last
\* valid stream
RECURSIVE ScanStreamsNoBreak(_, _)
ScanStreamsNoBreak(ss, i) ==
    IF i > Len(ss) THEN [w |-> 0, h |-> 0]
    ELSE LET later == ScanStreamsNoBreak(ss, i + 1)
         IN  IF later.w # 0 THEN later
             ELSE IF ss[i].w # 0 /\ ss[i].h # 0 THEN [w |-> ss[i].w, h |-> ss[i].h]
             ELSE later

\* the for loop with its break: dimensions of the first stream in which both
\* are non-zero, 0/0 when there is none
RECURSIVE ScanStreams(_, _)
ScanStreams(ss, i) ==
    IF i > Len(ss) THEN [w |-> 0, h |-> 0]
    ELSE IF ss[i].w # 0 /\ ss[i].h # 0 THEN [w |-> ss[i].w, h |-> ss[i].h]
    ELSE ScanStreams(ss, i + 1)

\* tolerance = 0.1, 16.0/9.0 and 9.0/16.0 as float64 constants
Tolerance == FRatio(1, 10)
Wide == FRatio(16, 9)
Tall == FRatio(9, 16)

Abs(x) == IF x < 0 THEN 0 - x ELSE x

\* variant of RatioClass: the two comparisons made in exact rational arithmetic,
\* |w/h - 16/9| < 1/10 and |w/h - 9/16| < 1/10, without float64 rounding
RatioClassExact(w, h) ==
    IF 10 * Abs(9 * w - 16 * h) < 9 * h THEN "16:9"
    ELSE IF 10 * Abs(16 * w - 9 * h) < 16 * h THEN "9:16"
    ELSE "other"

\* aspectRatio := float64(videoWidth) / float64(videoHeight) and the two
\* comparisons against the tolerance
RatioClass(w, h) ==
    LET aspectRatio == FRatio(w, h)
    IN  IF FLess(FAbsDiff(aspectRatio, Wide), Tolerance) THEN "16:9"
        ELSE IF FLess(FAbsDiff(aspectRatio, Tall), Tolerance) THEN "9:16"
        ELSE "other"

\* the function, given the probe tool's run: exit is its exit status,
\* parses whether its output unmarshals, ss the streams parsed from it;
\* divided records whether the division was reached
getVideoAspectRatio(exit, parses, ss) ==
    IF exit # 0
    THEN [ratio |-> "", err |-> "ffprobe error", divided |-> FALSE]
    ELSE IF ~parses
    THEN [ratio |-> "", err |-> "json unmarshal error", divided |-> FALSE]
    ELSE IF Len(ss) = 0
    THEN [ratio |-> "", err |-> "no streams found", divided |-> FALSE]
    ELSE LET v == ScanStreams(ss, 1)
         IN  IF v.w = 0 \/ v.h = 0
             THEN [ratio |-> "", err |-> "no valid video dimensions found",
                   divided |-> FALSE]
             ELSE [ratio |-> RatioClass(v.w, v.h), err |-> NoErr, divided |-> TRUE]


(***************************************************************************)
(* Location strings: sequences of characters.                              *)
(***************************************************************************)
Scheme == <<"h", "t", "t", "p", "s", ":", "/", "/">>

\* strings.HasPrefix
HasPrefix(s, p) == Len(s) >= Len(p) /\ SubSeq(s, 1, Len(p)) = p

\* strings.TrimPrefix
TrimPrefix(s, p) == IF HasPrefix(s, p) THEN SubSeq(s, Len(p) + 1, Len(s)) ELSE s

\* index of the first occurrence of character c in s, 0 when absent
IndexOf(s, c) ==
    IF \E i \in 1..Len(s) : s[i] = c
    THEN CHOOSE i \in 1..Len(s) : s[i] = c /\ \A j \in 1..(i - 1) : s[j] # c
    ELSE 0

\* strings.Split(s, c) for a one-character separator: every piece
RECURSIVE Split(_, _)
Split(s, c) ==
    LET i == IndexOf(s, c)
    IN  IF i = 0 THEN <<s>>
        ELSE <<SubSeq(s, 1, i - 1)>> \o Split(SubSeq(s, i + 1, Len(s)), c)

\* strings.SplitN(s, c, 2): cut at the first separator only
SplitN2(s, c) ==
    LET i == IndexOf(s, c)
    IN  IF i = 0 THEN <<s>>
        ELSE <<SubSeq(s, 1, i - 1), SubSeq(s, i + 1, Len(s))>>

\* video_url := fmt.Sprintf("%s,%s", cfg.s3Bucket, key)
CompactForm(bucket, key) == bucket \o <<",">> \o key

\* variant of DecodeLocation: a URL-form Location that has no "/" is retried
\* as compact form
DecodeLocationFallThrough(url) ==
    LET compact == Split(url, ",")
        parts   == SplitN2(TrimPrefix(url, Scheme), "/")
    IN  IF HasPrefix(url, Scheme) /\ Len(parts) = 2
        THEN [err |-> NoErr, bucket |-> Split(parts[1], ".")[1], key |-> parts[2]]
        ELSE IF Len(compact) # 2
        THEN [err |-> "invalid video URL format", bucket |-> <<>>, key |-> <<>>]
        ELSE [err |-> NoErr, bucket |-> compact[1], key |-> compact[2]]

\* faulty variant of DecodeLocation: the two pieces of the compact form are
\* taken in the wrong order
DecodeLocationSwapped(url) ==
    IF HasPrefix(url, Scheme)
    THEN LET parts == SplitN2(TrimPrefix(url, Scheme), "/")
         IN  IF Len(parts) # 2
             THEN [err |-> "invalid S3 URL format", bucket |-> <<>>, key |-> <<>>]
             ELSE [err |-> NoErr, bucket |-> Split(parts[1], ".")[1], key |-> parts[2]]
    ELSE LET parts == Split(url, ",")
         IN  IF Len(parts) # 2
             THEN [err |-> "invalid video URL format", bucket |-> <<>>, key |-> <<>>]
             ELSE [err |-> NoErr, bucket |-> parts[2], key |-> parts[1]]

\* the decoding of a present Location into bucket and key
DecodeLocation(url) ==
    IF HasPrefix(url, Scheme)
    THEN LET urlStr      == TrimPrefix(url, Scheme)
             parts       == SplitN2(urlStr, "/")
             domainParts == Split(parts[1], ".")
         IN  IF Len(parts) # 2
             THEN [err |-> "invalid S3 URL format", bucket |-> <<>>, key |-> <<>>]
             ELSE IF Len(domainParts) < 1
             THEN [err |-> "invalid S3 domain format", bucket |-> <<>>, key |-> <<>>]
             ELSE [err |-> NoErr, bucket |-> domainParts[1], key |-> parts[2]]
    ELSE LET parts == Split(url, ",")
         IN  IF Len(parts) # 2
             THEN [err |-> "invalid video URL format", bucket |-> <<>>, key |-> <<>>]
             ELSE [err |-> NoErr, bucket |-> parts[1], key |-> parts[2]]

\* the presigned URL the store's presign client returns for a bucket and key
SignedURL(bucket, key) ==
    Scheme \o bucket \o <<".", "s", "3", "/">> \o key \o <<"?", "X-Amz-Signature">>

\* generatePresignedURL; presignOK is whether PresignGetObject succeeds
generatePresignedURL(bucket, key, presignOK) ==
    IF presignOK
    THEN [url |-> SignedURL(bucket, key), err |-> NoErr]
    ELSE [url |-> <<>>, err |-> "failed to presign request"]

\* dbVideoToSignedVideo on the record's VideoURL (a *string): the returned
\* record's VideoURL, the error, and the (bucket, key) handed to signing
dbVideoToSignedVideo(url, presignOK) ==
    IF url = Nil
    THEN [url |-> Nil, err |-> NoErr, signArgs |-> <<>>]
    ELSE LET d == DecodeLocation(Deref(url))
         IN  IF d.err # NoErr
             THEN [url |-> url, err |-> d.err, signArgs |-> <<>>]
             ELSE LET p == generatePresignedURL(d.bucket, d.key, presignOK)
                  IN  IF p.err # NoErr
                      THEN [url |-> url, err |-> "failed to generate presigned URL",
                            signArgs |-> <<d.bucket, d.key>>]
                      ELSE [url |-> Ptr(p.url), err |-> NoErr,
                            signArgs |-> <<d.bucket, d.key>>]

(***************************************************************************)
(* Specification of the aspect classifier: the probe tool reports streams  *)
(* one by one, then the classification runs on the list.                   *)
(***************************************************************************)
HandlerIdle ==
    /\ db = <<>>
    /\ objects = {}
    /\ files = {}
    /\ req = <<>>

NoResolution == [url |-> Nil, err |-> Pending, signArgs |-> <<>>]

LocIdle ==
    lphase = "legacy" /\ lbucket = <<>> /\ lkey = <<>> /\ loc = Nil /\ res = NoResolution

NoClassification == [ratio |-> "", err |-> Pending, divided |-> FALSE]

AspectIdle == streams = <<>> /\ aspect = NoClassification

InitAspect == AspectIdle /\ LocIdle /\ HandlerIdle

ProbeStream ==
    /\ aspect.err = Pending
    /\ Len(streams) < MaxStreams
    /\ \E s \in StreamVals : streams' = Append(streams, s)
    /\ UNCHANGED <<aspect, locVars, handlerVars>>

ClassifyStreams ==
    /\ aspect.err = Pending
    /\ \E exit \in {0, 1}, parses \in BOOLEAN :
          aspect' = getVideoAspectRatio(exit, parses, streams)
    /\ UNCHANGED <<streams, locVars, handlerVars>>

NextAspect == ProbeStream \/ ClassifyStreams

SpecAspect == InitAspect /\ [][NextAspect]_vars

(***************************************************************************)
(* Specification of the Location resolver: a Location is either written in *)
(* compact form from a bucket and a key, or found in a legacy record, and  *)
(* is then resolved.                                                       *)
(***************************************************************************)
LocAlphabet == {"a", ".", "/", ","}

StringsUpTo(n) == UNION {[1..k -> LocAlphabet] : k \in 0..n}

WithScheme(S) == S \cup {Scheme \o s : s \in S}

BucketInputs == WithScheme(StringsUpTo(MaxPartLen))
KeyInputs == StringsUpTo(MaxPartLen)
LegacyLocations == {Nil} \cup {Ptr(s) : s \in WithScheme(StringsUpTo(MaxLocLen))}

InitLoc ==
    /\ AspectIdle /\ HandlerIdle
    /\ res = NoResolution
    /\ \/ lphase = "encode" /\ lbucket \in BucketInputs /\ lkey \in KeyInputs /\ loc = Nil
       \/ lphase = "legacy" /\ lbucket = <<>> /\ lkey = <<>> /\ loc \in LegacyLocations

\* the handler's encoding of the Location it persists
EncodeLocation ==
    /\ lphase = "encode"
    /\ loc' = Ptr(CompactForm(lbucket, lkey))
    /\ lphase' = "written"
    /\ UNCHANGED <<lbucket, lkey, res, aspectVars, handlerVars>>

\* faulty variant of ResolveLocation: resolution stores the signed URL in the
\* persisted record
ResolveLocationPersisting ==
    /\ lphase # "encode" /\ res.err = Pending
    /\ \E presignOK \in BOOLEAN :
          /\ res' = dbVideoToSignedVideo(loc, presignOK)
          /\ loc' = res'.url
    /\ UNCHANGED <<lphase, lbucket, lkey, aspectVars, handlerVars>>

\* a call of dbVideoToSignedVideo on the persisted record
ResolveLocation ==
    /\ lphase # "encode" /\ res.err = Pending
    /\ \E presignOK \in BOOLEAN : res' = dbVideoToSignedVideo(loc, presignOK)
    /\ UNCHANGED <<lphase, lbucket, lkey, loc, aspectVars, handlerVars>>

NextLoc == EncodeLocation \/ ResolveLocation

SpecLoc == InitLoc /\ [][NextLoc]_vars


(***************************************************************************)
(* Claims about the aspect classifier, checked under SpecAspect.           *)
(***************************************************************************)
\* the classifier has run on a parsed stream list
Classified == aspect.err \notin {Pending, "ffprobe error", "json unmarshal error"}

ValidStreams == {i \in 1..Len(streams) : streams[i].w # 0 /\ streams[i].h # 0}

FirstValid == CHOOSE i \in ValidStreams : \A j \in ValidStreams : i <= j

\* width / height is exactly 16/9 - 1/10 = 151/90
OnLowerBoundary(s) == 90 * s.w = 151 * s.h

\* C8: a pair whose ratio is exactly 16/9 - 0.1 (such as 151 x 90) is
\* classified as "16:9".
C8_LowerBoundaryIsWide ==
    (Classified /\ ValidStreams # {} /\ OnLowerBoundary(streams[FirstValid]))
        => aspect.ratio = "16:9"

C8_Witness ==
    /\ Classified /\ ValidStreams # {}
    /\ streams[FirstValid] = [w |-> 151, h |-> 90]
    /\ aspect.ratio = "16:9"

\* |w/h - a/b| < 0.1 in float64, as the claim's comparisons read
Within(s, a, b) == FLess(FAbsDiff(FRatio(s.w, s.h), FRatio(a, b)), FRatio(1, 10))

Resolved == res.err # Pending

NoComma(s) == \A i \in 1..Len(s) : s[i] # ","

\* C6 as stated: for every bucket and key without a comma, the compact
\* encoding decodes to the same (bucket, key) pair, which goes to signing.
C6_RoundTripNoComma ==
    (lphase = "written" /\ Resolved /\ NoComma(lbucket) /\ NoComma(lkey))
        => res.signArgs = <<lbucket, lkey>>

\* C6 as amended: the same, for buckets that do not begin with "https://".
C6_RoundTripNoCommaNoScheme ==
    (lphase = "written" /\ Resolved /\ NoComma(lbucket) /\ NoComma(lkey)
        /\ ~HasPrefix(lbucket, Scheme))
        => res.signArgs = <<lbucket, lkey>>

C6_Witness ==
    /\ lphase = "written" /\ Resolved
    /\ lbucket = <<"a">> /\ lkey = <<"a", "/">>
    /\ res.signArgs = <<lbucket, lkey>>

\* the two decodings, stated on the string
Commas(s) == {i \in 1..Len(s) : s[i] = ","}
Slashes(s) == {i \in (Len(Scheme) + 1)..Len(s) : s[i] = "/"}
UrlFormParses(s) == HasPrefix(s, Scheme) /\ Slashes(s) # {}
UrlFormPair(s) ==
    LET slash == CHOOSE i \in Slashes(s) : \A j \in Slashes(s) : i <= j
        stops == {i \in (Len(Scheme) + 1)..slash : s[i] \in {".", "/"}}
        stop  == CHOOSE i \in stops : \A j \in stops : i <= j
    IN  <<SubSeq(s, Len(Scheme) + 1, stop - 1), SubSeq(s, slash + 1, Len(s))>>
CompactFormParses(s) == Cardinality(Commas(s)) = 1
CompactFormPair(s) ==
    LET comma == CHOOSE i \in Commas(s) : TRUE
    IN  <<SubSeq(s, 1, comma - 1), SubSeq(s, comma + 1, Len(s))>>

\* C7 as stated: URL form is tried first, compact form is tried when URL
\* form fails, and the decode fails only when neither succeeds.
C7_TriesBothForms ==
    (Resolved /\ loc # Nil) =>
        res.signArgs =
            (IF UrlFormParses(Deref(loc)) THEN UrlFormPair(Deref(loc))
             ELSE IF CompactFormParses(Deref(loc)) THEN CompactFormPair(Deref(loc))
             ELSE <<>>)

\* C7 as amended: the "https://" prefix alone selects the decoding; a
\* Location with the prefix is decoded as URL form only, any other as
\* compact form only, and the decode fails when the selected one fails.
C7_PrefixSelectsForm ==
    (Resolved /\ loc # Nil) =>
        /\ res.signArgs =
              (IF HasPrefix(Deref(loc), Scheme)
               THEN (IF UrlFormParses(Deref(loc)) THEN UrlFormPair(Deref(loc)) ELSE <<>>)
               ELSE (IF CompactFormParses(Deref(loc))
                     THEN CompactFormPair(Deref(loc)) ELSE <<>>))
        /\ (res.signArgs = <<>>) =
              (res.err \in {"invalid S3 URL format", "invalid video URL format"})

\* a URL-form Location without "/" that has exactly one comma: refused
C7_Witness ==
    /\ Resolved
    /\ loc = Ptr(Scheme \o <<"a", ",", "a">>)
    /\ res.err = "invalid S3 URL format"

\* C10: resolution leaves the persisted Location as it was, whether it
\* succeeds or fails, and an absent Location comes back absent, no error.
C10_ResolutionKeepsRecord ==
    [][(~Resolved /\ Resolved')
          => /\ loc' = loc
             /\ (loc = Nil => (res'.url = Nil /\ res'.err = NoErr))]_vars

C10_Witness == Resolved /\ lphase = "legacy" /\ loc = Nil /\ res.err = NoErr


(***************************************************************************)
(* The video upload handler.                                               *)
(***************************************************************************)
Reqs == {"r1", "r2"}

\* the path value videoID: two well-formed ids (v1 has a record, v2 has
\* none) and one that uuid.Parse rejects
PathIDs == {"v1", "v2", "not-a-uuid"}
IsUUID(id) == id \in {"v1", "v2"}

\* the Authorization header: absent, a token that fails verification, or a
\* valid token of a user
Users == {"alice", "bob"}
Tokens == {"missing", "forged"} \cup Users

\* the Content-Type header of the uploaded part
ContentTypes == {"", "video/mp4", "Video/MP4; codecs=avc1", "image/png"}

\* mime.ParseMediaType
ParseMediaType(h) ==
    IF h = "" THEN [mediaType |-> "", err |-> "mime: no media type"]
    ELSE IF h \in {"video/mp4", "Video/MP4; codecs=avc1"}
    THEN [mediaType |-> "video/mp4", err |-> NoErr]
    ELSE [mediaType |-> h, err |-> NoErr]

\* cfg.s3Bucket
s3Bucket == <<"b">>

\* a record written by another path, with a URL-form Location
LegacyURL == Scheme \o <<"b", ".", "s", "3", "/", "o", "l", "d">>

\* the zero database.Video
NoVideo == [ID |-> "", UserID |-> "", VideoURL |-> Nil, ThumbnailURL |-> Nil]

\* cfg.db.GetVideo: the record, or an error when the store fails or holds no
\* record with this id
GetVideo(id, storeOK) ==
    IF ~storeOK \/ db[id] = <<>>
    THEN [video |-> NoVideo, err |-> "sql: no rows in result set"]
    ELSE [video |-> db[id][1], err |-> NoErr]

\* the ids getAssetPath draws at random
AssetIDs == {<<"x">>}

\* getAssetPath(mediaType): "<random id>.mp4"
getAssetPath(mediaType, id) == id \o <<".", "m", "p", "4">>

\* filepath.Join of two clean, non-empty elements
JoinPath(dir, name) == dir \o <<"/">> \o name

\* the switch on videoAspectRatio
Directory(videoAspectRatio) ==
    IF videoAspectRatio = "16:9" THEN <<"l", "a", "n", "d", "s", "c", "a", "p", "e">>
    ELSE IF videoAspectRatio = "9:16" THEN <<"p", "o", "r", "t", "r", "a", "i", "t">>
    ELSE <<"o", "t", "h", "e", "r">>

\* os.CreateTemp("", "tubely-upload-*.mp4"): a name no existing file has; the
\* random part is taken to be the request slot
TempName(r) == [kind |-> "upload", slot |-> r]

\* the output path of processVideoForFastStart for an input path
ProcessedName(path) == [kind |-> "processed", slot |-> path.slot]

\* processVideoForFastStart: the remux tool either produces the output file,
\* fails before writing it, or fails leaving an output file behind
Remuxes == {"ok", "failed", "failedWithOutput"}

processVideoForFastStart(path, remux) ==
    IF remux = "ok"
    THEN [path |-> Ptr(ProcessedName(path)), err |-> NoErr, written |-> {ProcessedName(path)}]
    ELSE IF remux = "failed"
    THEN [path |-> Nil, err |-> "error processing video", written |-> {}]
    ELSE [path |-> Nil, err |-> "error processing video", written |-> {ProcessedName(path)}]

\* the probe tool's runs the handler is taken to see: exit status, whether
\* the output parses, the parsed streams
HandlerProbes ==
    { [exit |-> 1, parses |-> FALSE, streams |-> <<>>],
      [exit |-> 0, parses |-> TRUE, streams |-> <<>>],
      [exit |-> 0, parses |-> TRUE, streams |-> <<[w |-> 1920, h |-> 1080]>>],
      [exit |-> 0, parses |-> TRUE, streams |-> <<[w |-> 1080, h |-> 1920]>>],
      [exit |-> 0, parses |-> TRUE, streams |-> <<[w |-> 640, h |-> 480]>>] }

\* a request slot before a request
IdleReq ==
    [pc |-> "idle", video |-> NoVideo, mediaType |-> "", tmp |-> Nil,
     processed |-> Nil, directory |-> <<>>, videoURL |-> <<>>,
     status |-> 0, msg |-> "", body |-> Nil,
     \* history of the request, kept for the properties
     did |-> {}, created |-> {}, wrote |-> FALSE, unknownRecord |-> FALSE]

\* respondWithError / respondWithJSON followed by return: the response is
\* sent and the locals die; the history fields are kept
Respond(q, status, msg) ==
    [IdleReq EXCEPT !.pc = "done", !.status = status, !.msg = msg,
                    !.did = q.did, !.created = q.created, !.wrote = q.wrote,
                    !.unknownRecord = q.unknownRecord]

\* the deferred os.Remove calls registered so far
Deferred(q) == {q.tmp[i] : i \in 1..Len(q.tmp)} \cup {q.processed[i] : i \in 1..Len(q.processed)}

HandlerInit ==
    /\ \E u \in {Nil, Ptr(LegacyURL)} :
          db = [v \in {"v1", "v2"} |->
                  IF v = "v1"
                  THEN <<[ID |-> "v1", UserID |-> "alice", VideoURL |-> u,
                          ThumbnailURL |-> Nil]>>
                  ELSE <<>>]
    /\ objects = {}
    /\ files = {}
    /\ req = [r \in Reqs |-> IdleReq]

Init == AspectIdle /\ LocIdle /\ HandlerInit

\* handlerUploadVideo up to the ownership check
Validate(r) ==
    /\ req[r].pc \in {"idle", "done"}
    /\ \E id \in PathIDs, tok \in Tokens, storeOK \in BOOLEAN :
          LET got == GetVideo(id, storeOK)
          IN  req' = [req EXCEPT ![r] =
                  IF ~IsUUID(id) THEN Respond(IdleReq, 400, "Invalid video ID")
                  ELSE IF tok = "missing" THEN Respond(IdleReq, 401, "Couldn't find JWT")
                  ELSE IF tok = "forged"
                  THEN Respond(IdleReq, 401, "Couldn't validate JWT")
                  ELSE IF got.err # NoErr
                  THEN Respond([IdleReq EXCEPT !.unknownRecord = (db[id] = <<>>)],
                               500, "Couldn't get video metadata")
                  ELSE IF got.video.UserID # tok
                  THEN Respond(IdleReq, 401, "User not authorized to upload video")
                  ELSE [IdleReq EXCEPT !.pc = "form", !.video = got.video]]
    /\ UNCHANGED <<db, objects, files, aspectVars, locVars>>

\* faulty variant of ParseForm: the temporary file is created before the
\* content type is checked
ParseFormAfterStaging(r) ==
    /\ req[r].pc = "form"
    /\ \E hasPart \in BOOLEAN, ctype \in ContentTypes :
          LET q == [req[r] EXCEPT !.did = @ \cup {"stage"},
                                  !.created = @ \cup {TempName(r)}]
              parsed == ParseMediaType(ctype)
          IN  req' = [req EXCEPT ![r] =
                  IF ~hasPart THEN Respond(q, 400, "Unable to parse form file")
                  ELSE IF parsed.err # NoErr THEN Respond(q, 400, "Invalid Content-Type")
                  ELSE IF parsed.mediaType # "video/mp4"
                  THEN Respond(q, 400, "Invalid file type")
                  ELSE [req[r] EXCEPT !.pc = "stage", !.mediaType = parsed.mediaType]]
    /\ UNCHANGED <<db, objects, files, aspectVars, locVars>>

\* handlerUploadVideo: the form file and its content type
ParseForm(r) ==
    /\ req[r].pc = "form"
    /\ \E hasPart \in BOOLEAN, ctype \in ContentTypes :
          LET q == req[r]
              parsed == ParseMediaType(ctype)
          IN  req' = [req EXCEPT ![r] =
                  IF ~hasPart THEN Respond(q, 400, "Unable to parse form file")
                  ELSE IF parsed.err # NoErr THEN Respond(q, 400, "Invalid Content-Type")
                  ELSE IF parsed.mediaType # "video/mp4"
                  THEN Respond(q, 400, "Invalid file type")
                  ELSE [q EXCEPT !.pc = "stage", !.mediaType = parsed.mediaType]]
    /\ UNCHANGED <<db, objects, files, aspectVars, locVars>>

\* handlerUploadVideo: the temporary file is created, filled and rewound
Stage(r) ==
    /\ req[r].pc = "stage"
    /\ \E createOK \in BOOLEAN, copyOK \in BOOLEAN, seekOK \in BOOLEAN :
          LET q0 == [req[r] EXCEPT !.did = @ \cup {"stage"}]
              q  == [q0 EXCEPT !.tmp = Ptr(TempName(r)),
                               !.created = @ \cup {TempName(r)}]
          IN  IF ~createOK
              THEN /\ req' = [req EXCEPT ![r] =
                                Respond(q0, 500, "Couldn't create temp file")]
                   /\ files' = files
              ELSE IF ~copyOK
              THEN /\ req' = [req EXCEPT ![r] =
                                Respond(q, 500, "Could not write file to disk")]
                   /\ files' = (files \cup {TempName(r)}) \ Deferred(q)
              ELSE IF ~seekOK
              THEN /\ req' = [req EXCEPT ![r] =
                                Respond(q, 500, "Could not reset file pointer")]
                   /\ files' = (files \cup {TempName(r)}) \ Deferred(q)
              ELSE /\ req' = [req EXCEPT ![r] = [q EXCEPT !.pc = "classify"]]
                   /\ files' = files \cup {TempName(r)}
    /\ UNCHANGED <<db, objects, aspectVars, locVars>>

\* handlerUploadVideo: the aspect ratio and the directory chosen from it
Classify(r) ==
    /\ req[r].pc = "classify"
    /\ \E probe \in HandlerProbes :
          LET q == [req[r] EXCEPT !.did = @ \cup {"classify"}]
              a == getVideoAspectRatio(probe.exit, probe.parses, probe.streams)
          IN  IF a.err # NoErr
              THEN /\ req' = [req EXCEPT ![r] =
                                Respond(q, 500, "Couldn't get video aspect ratio")]
                   /\ files' = files \ Deferred(q)
              ELSE /\ req' = [req EXCEPT ![r] =
                                [q EXCEPT !.pc = "optimize",
                                          !.directory = Directory(a.ratio)]]
                   /\ files' = files
    /\ UNCHANGED <<db, objects, aspectVars, locVars>>

\* handlerUploadVideo: the fast-start copy is made and opened
Optimize(r) ==
    /\ req[r].pc = "optimize"
    /\ \E remux \in Remuxes, openOK \in BOOLEAN :
          LET p  == processVideoForFastStart(Deref(req[r].tmp), remux)
              q0 == [req[r] EXCEPT !.did = @ \cup {"optimize"},
                                   !.created = @ \cup p.written]
              q  == [q0 EXCEPT !.processed = p.path]
          IN  IF p.err # NoErr
              THEN /\ req' = [req EXCEPT ![r] =
                                Respond(q0, 500, "Couldn't process video for fast start")]
                   /\ files' = (files \cup p.written) \ Deferred(q0)
              ELSE IF ~openOK
              THEN /\ req' = [req EXCEPT ![r] =
                                Respond(q, 500, "Couldn't open processed file")]
                   /\ files' = (files \cup p.written) \ Deferred(q)
              ELSE /\ req' = [req EXCEPT ![r] = [q EXCEPT !.pc = "publish"]]
                   /\ files' = files \cup p.written
    /\ UNCHANGED <<db, objects, aspectVars, locVars>>

\* faulty variant of Publish: the error of PutObject is not checked
PublishUnchecked(r) ==
    /\ req[r].pc = "publish"
    /\ \E id \in AssetIDs, putOK \in BOOLEAN :
          LET key       == JoinPath(req[r].directory, getAssetPath(req[r].mediaType, id))
              video_url == CompactForm(s3Bucket, key)
              q == [req[r] EXCEPT !.did = @ \cup {"publish"}, !.videoURL = video_url]
          IN  /\ req' = [req EXCEPT ![r] = [q EXCEPT !.pc = "update"]]
              /\ objects' = IF putOK THEN objects \cup {key} ELSE objects
              /\ files' = files
    /\ UNCHANGED <<db, aspectVars, locVars>>

\* handlerUploadVideo: the key, the Location string and the upload
Publish(r) ==
    /\ req[r].pc = "publish"
    /\ \E id \in AssetIDs, putOK \in BOOLEAN :
          LET key       == JoinPath(req[r].directory, getAssetPath(req[r].mediaType, id))
              video_url == CompactForm(s3Bucket, key)
              q == [req[r] EXCEPT !.did = @ \cup {"publish"}, !.videoURL = video_url]
          IN  IF ~putOK
              THEN /\ req' = [req EXCEPT ![r] =
                                Respond(q, 500, "Couldn't upload file to S3")]
                   /\ objects' = objects
                   /\ files' = files \ Deferred(q)
              ELSE /\ req' = [req EXCEPT ![r] = [q EXCEPT !.pc = "update"]]
                   /\ objects' = objects \cup {key}
                   /\ files' = files
    /\ UNCHANGED <<db, aspectVars, locVars>>

\* handlerUploadVideo: the record is updated with the new Location
UpdateRecord(r) ==
    /\ req[r].pc = "update"
    /\ \E updateOK \in BOOLEAN :
          LET video == [req[r].video EXCEPT !.VideoURL = Ptr(req[r].videoURL)]
              q == [req[r] EXCEPT !.did = @ \cup {"update"}, !.video = video]
          IN  IF ~updateOK
              THEN /\ req' = [req EXCEPT ![r] = Respond(q, 500, "Couldn't update video")]
                   /\ db' = db
                   /\ files' = files \ Deferred(q)
              ELSE /\ req' = [req EXCEPT ![r] = [q EXCEPT !.pc = "sign", !.wrote = TRUE]]
                   /\ db' = [db EXCEPT ![video.ID] = <<video>>]
                   /\ files' = files
    /\ UNCHANGED <<objects, aspectVars, locVars>>

\* handlerUploadVideo: the record is resolved and returned
Sign(r) ==
    /\ req[r].pc = "sign"
    /\ \E presignOK \in BOOLEAN :
          LET signedVideo == dbVideoToSignedVideo(req[r].video.VideoURL, presignOK)
          IN  req' = [req EXCEPT ![r] =
                  IF signedVideo.err # NoErr
                  THEN Respond(req[r], 500, "Couldn't generate presigned URL")
                  ELSE [Respond(req[r], 200, "") EXCEPT !.body = signedVideo.url]]
    /\ files' = files \ Deferred(req[r])
    /\ UNCHANGED <<db, objects, aspectVars, locVars>>


Next ==
    \E r \in Reqs :
        \/ Validate(r)
        \/ ParseForm(r)
        \/ Stage(r)
        \/ Classify(r)
        \/ Optimize(r)
        \/ Publish(r)
        \/ UpdateRecord(r)
        \/ Sign(r)

Spec == Init /\ [][Next]_vars


(***************************************************************************)
(* Claims about the upload handler, checked under Spec.                    *)
(***************************************************************************)
Done(r) == req[r].pc = "done"

\* C1: when the handling of a video upload ends, on whatever exit path,
\* every local file created for that request has been removed.
C1_NoLocalFileLeft ==
    \A r \in Reqs : Done(r) => req[r].created \cap files = {}

StoredLocations ==
    {db[v][1].VideoURL : v \in {w \in DOMAIN db : db[w] # <<>>}} \ {Nil}

\* C2: every stored Location in compact form "<bucket>,<key>" names a key
\* whose upload to the object store succeeded.
C2_PersistedLocationIsPublished ==
    \A u \in StoredLocations :
        ~HasPrefix(Deref(u), Scheme)
            => \E key \in objects : Deref(u) = CompactForm(s3Bucket, key)

\* two uploads to the same record have both written their Location
C2_Witness ==
    /\ \A r \in Reqs : req[r].pc = "sign" /\ req[r].wrote
    /\ \E r \in Reqs : db["v1"][1].VideoURL # req[r].video.VideoURL
    /\ Cardinality(objects) = 2

\* C3: a video upload that ends with an error response has persisted no
\* Location.
C3_FailedRequestWroteNothing ==
    \A r \in Reqs : (Done(r) /\ req[r].status # 200) => ~req[r].wrote

NotOwner(r) == Done(r) /\ req[r].msg = "User not authorized to upload video"
WrongType(r) == Done(r) /\ req[r].msg = "Invalid file type"

C5_UnknownRecordIs404 ==
    \A r \in Reqs : (Done(r) /\ req[r].unknownRecord) => req[r].status = 404

====
